---- MODULE Spec2Model ----
(***************************************************************************)
(* Cucki Planner MCP (src/cucki_main.py): sixteen tool handlers that map   *)
(* named operations to scoped queries on three store tables.               *)
(*                                                                         *)
(* Strings are sequences of tokens: a token is either the whitespace       *)
(* character " " or a block of non-whitespace text, so that str.strip()    *)
(* and Python truthiness are computed, not assumed.  An optional argument  *)
(* (T | None) is None or Some(v).  A caller is a process p: it issues a    *)
(* request (Call), the handler runs on it, and the caller reads the         *)
(* response (Return).  A handler that issues one store call is one step;   *)
(* an upsert issues two (lookup, then write) and is two steps.             *)
(***************************************************************************)
EXTENDS Integers, Sequences, FiniteSets, TLC

VARIABLES
    workload,               \* what the callers of this behaviour ask for
    DEFAULT_CUCKI_USER_ID,  \* line 17: read once from the environment
    shopping,               \* rows of madriguera_shopping_list
    week_menu,              \* rows of madriguera_week_menu
    weight_entries,         \* rows of madriguera_weight_entries
    nextId,                 \* the store's next fresh row id / creation time
    pc,                     \* per caller: "idle", "called", "write", "returned"
    req,                    \* per caller: the request being / last handled
    existing,               \* per caller: the upsert's lookup result
    resp                    \* per caller: the last response

vars == <<workload, DEFAULT_CUCKI_USER_ID, shopping, week_menu, weight_entries, nextId,
          pc, req, existing, resp>>

tables == <<shopping, week_menu, weight_entries>>

\* ------------------------------------------------------------------ bounds

\* Rows the store creates in one behaviour (ids are never reused).
MaxRows == 2

Procs == {1, 2}

\* ------------------------------------------------------- Python values

None == <<>>
Some(v) == <<v>>
Val(o) == o[1]

Whitespace == {" "}

\* `x or ""` / `if x:` on a str | None: None and "" are falsy.
Truthy(o) == o # None /\ Val(o) # <<>>

RECURSIVE lstrip(_)
lstrip(s) == IF s # <<>> /\ Head(s) \in Whitespace THEN lstrip(Tail(s)) ELSE s

RECURSIVE rstrip(_)
rstrip(s) ==
    IF s # <<>> /\ s[Len(s)] \in Whitespace
    THEN rstrip(SubSeq(s, 1, Len(s) - 1))
    ELSE s

strip(s) == rstrip(lstrip(s))

\* The outcome of a resolver: a value, or a RuntimeError.
Ok(v) == [raised |-> FALSE, error |-> "", v |-> v]
Raise(msg) == [raised |-> TRUE, error |-> msg]

\* The rows of S as a sequence in increasing order of key[r]; equal keys in
\* the order of creation (the row id).
RECURSIVE SortBy(_, _)
SortBy(S, key) ==
    IF S = {} THEN <<>>
    ELSE LET m == CHOOSE r \in S :
                    \A q \in S : \/ key[r] < key[q]
                                 \/ (key[r] = key[q] /\ r.id <= q.id)
         IN <<m>> \o SortBy(S \ {m}, key)

Reverse(s) == [i \in 1..Len(s) |-> s[Len(s) + 1 - i]]

\* ------------------------------------------------------------ resolvers

_resolve_user_id(user_id) ==
    LET resolved == strip(IF Truthy(user_id) THEN Val(user_id)
                          ELSE DEFAULT_CUCKI_USER_ID)
    IN IF resolved = <<>>
       THEN Raise("Missing user_id and CUCKI_DEFAULT_USER_ID")
       ELSE Ok(resolved)

_resolve_week_start(week_start) ==
    LET value == strip(IF Truthy(week_start) THEN Val(week_start) ELSE <<>>)
    IN IF value = <<>>
       THEN Raise("Missing week_start (expected YYYY-MM-DD)")
       ELSE Ok(value)

MinDay == 1
MaxDay == 7

\* A faulty variant without the upper limit of line 69 (day_index > 7).
_resolve_day_index_unbounded(day_index) ==
    IF ~day_index.int THEN Raise("day_index must be an integer")
    ELSE IF day_index.v < MinDay
         THEN Raise("day_index must be in range 1..7")
         ELSE Ok(day_index.v)

\* day_index is [int |-> isinstance(day_index, int), v |-> its value].
_resolve_day_index(day_index) ==
    IF ~day_index.int THEN Raise("day_index must be an integer")
    ELSE IF day_index.v < MinDay \/ day_index.v > MaxDay
         THEN Raise("day_index must be in range 1..7")
         ELSE Ok(day_index.v)

_resolve_date(value) ==
    LET resolved == strip(IF Truthy(value) THEN Val(value) ELSE <<>>)
    IN IF resolved = <<>>
       THEN Raise("Missing date (expected YYYY-MM-DD)")
       ELSE Ok(resolved)

\* weight_kg is [num |-> float(value) succeeds, v |-> the float].
_resolve_weight_kg(value) ==
    IF value.num THEN Ok(value.v)
    ELSE Raise("weight_kg must be a valid number")

\* ------------------------------------------------------------ responses

NoReq == [op |-> "none"]
NoResp == [status |-> "none"]
NotFound == 0

\* A raised RuntimeError: the handler issued `calls` store calls before it.
Raised(msg, calls) ==
    [status |-> "raise", ok |-> FALSE, error |-> msg, mode |-> "",
     user_id |-> <<>>, rows |-> <<>>, calls |-> calls]

\* {"ok": True, ...}: rows is items / updated / deleted / [item].
Returned(mode, rows, calls) ==
    [status |-> "return", ok |-> TRUE, error |-> "", mode |-> mode,
     user_id |-> <<>>, rows |-> rows, calls |-> calls]

\* {"ok": False, "error": msg}
Refused(msg) ==
    [status |-> "return", ok |-> FALSE, error |-> msg, mode |-> "",
     user_id |-> <<>>, rows |-> <<>>, calls |-> 0]

\* --------------------------------------------------------------- store

\* .update(changes) on the rows matched by the filters: the table after it.
StoreUpdate(table, matched, changes) ==
    {IF r \in matched
     THEN [f \in DOMAIN r |-> IF f \in DOMAIN changes THEN changes[f] ELSE r[f]]
     ELSE r : r \in table}

\* res.data of an update: the rows as updated.
Updated(table, matched, changes) ==
    LET rows == StoreUpdate(table \cap matched, matched, changes)
    IN SortBy(rows, [r \in rows |-> r.id])

\* One entry of a change-set: present only when the argument is not None.
Change(field, o) == IF o # None THEN field :> Val(o) ELSE <<>>

\* A faulty variant: the empty change-set is not detected.
NeverNoChanges(changes) == FALSE

\* `if not changes:` - the change-set is empty.
NoChanges(changes) == DOMAIN changes = {}

\* A store that keeps natural keys unique, which this one does not: the
\* inserted row replaces the rows of its (user_id, date) or of its
\* (user_id, week_start, day_index).
StoreInsertUnique(table, row) ==
    {r \in table :
        ~(/\ r.user_id = row.user_id
          /\ IF "date" \in DOMAIN row THEN r.date = row.date
             ELSE IF "week_start" \in DOMAIN row
                  THEN /\ r.week_start = row.week_start
                       /\ r.day_index = row.day_index
                  ELSE FALSE)} \cup {row}

\* .insert(payload): the table after it (the store checks no natural key).
StoreInsert(table, row) == table \cup {row}

\* (res.data or [{}])[0]: the first row, or the empty record (no row here).
FirstRow(data) == IF data = <<>> THEN <<>> ELSE <<data[1]>>

Reply(p, r) ==
    /\ resp' = [resp EXCEPT ![p] = r]
    /\ pc' = [pc EXCEPT ![p] = "returned"]

Running(p, op) == pc[p] = "called" /\ req[p].op = op

\* ------------------------------------------------------- shopping list

\* A faulty variant without the owner filter of line 43.
_shopping_select_any_owner(user_id, include_done) ==
    {r \in shopping : include_done \/ r.done = FALSE}

\* lines 38-44, with the optional done filter of line 102
_shopping_select_query(user_id, include_done) ==
    {r \in shopping : r.user_id = user_id /\ (include_done \/ r.done = FALSE)}

\* lines 47-56: the inserted row, as the store returns it
_shopping_insert(user_id, name, category, qty, done) ==
    [id |-> nextId, user_id |-> user_id, name |-> name, category |-> category,
     qty |-> qty, done |-> done, created_at |-> nextId]

planner_shopping_list(p) ==
    /\ Running(p, "planner_shopping_list")
    /\ LET resolved_user_id == _resolve_user_id(req[p].user_id)
       IN IF resolved_user_id.raised
          THEN Reply(p, Raised(resolved_user_id.error, 0))
          ELSE LET rows == _shopping_select_query(resolved_user_id.v,
                                                  req[p].include_done)
                   items == Reverse(SortBy(rows, [r \in rows |-> r.created_at]))
               IN Reply(p, [Returned("", items, 1)
                               EXCEPT !.user_id = resolved_user_id.v])
    /\ UNCHANGED <<workload, DEFAULT_CUCKI_USER_ID, tables, nextId, req, existing>>

planner_shopping_add(p) ==
    /\ Running(p, "planner_shopping_add")
    /\ LET resolved_user_id == _resolve_user_id(req[p].user_id)
       IN IF resolved_user_id.raised
          THEN /\ Reply(p, Raised(resolved_user_id.error, 0))
               /\ UNCHANGED <<shopping, nextId>>
          ELSE LET row == _shopping_insert(resolved_user_id.v, req[p].name,
                              req[p].category, req[p].qty, req[p].done)
               IN /\ nextId <= MaxRows
                  /\ shopping' = StoreInsert(shopping, row)
                  /\ nextId' = nextId + 1
                  /\ Reply(p, [Returned("", <<row>>, 1)
                                  EXCEPT !.user_id = resolved_user_id.v])
    /\ UNCHANGED <<workload, DEFAULT_CUCKI_USER_ID, week_menu, weight_entries, req, existing>>

\* .eq("id", item_id), and .eq("user_id", user_id) only `if user_id:`
ItemMatch(r, item_id, user_id) ==
    /\ r.id = item_id
    /\ Truthy(user_id) => r.user_id = Val(user_id)

planner_shopping_update(p) ==
    /\ Running(p, "planner_shopping_update")
    /\ LET changes == Change("name", req[p].name)
                        @@ Change("category", req[p].category)
                        @@ Change("qty", req[p].qty)
                        @@ Change("done", req[p].done)
           match(r) == ItemMatch(r, req[p].item_id, req[p].user_id)
           matched == {r \in shopping : match(r)}
       IN IF NoChanges(changes)
          THEN /\ Reply(p, Refused("No fields to update"))
               /\ UNCHANGED shopping
          ELSE /\ shopping' = StoreUpdate(shopping, matched, changes)
               /\ Reply(p, Returned("", Updated(shopping, matched, changes), 1))
    /\ UNCHANGED <<workload, DEFAULT_CUCKI_USER_ID, week_menu, weight_entries, nextId,
                   req, existing>>

planner_shopping_set_done(p) ==
    /\ Running(p, "planner_shopping_set_done")
    /\ LET changes == "done" :> req[p].done
           match(r) == ItemMatch(r, req[p].item_id, req[p].user_id)
           matched == {r \in shopping : match(r)}
       IN /\ shopping' = StoreUpdate(shopping, matched, changes)
          /\ Reply(p, Returned("", Updated(shopping, matched, changes), 1))
    /\ UNCHANGED <<workload, DEFAULT_CUCKI_USER_ID, week_menu, weight_entries, nextId,
                   req, existing>>

\* res.data of a delete: the rows removed.
Deleted(table, matched) ==
    LET rows == table \cap matched
    IN SortBy(rows, [r \in rows |-> r.id])

planner_shopping_delete(p) ==
    /\ Running(p, "planner_shopping_delete")
    /\ LET match(r) == ItemMatch(r, req[p].item_id, req[p].user_id)
           matched == {r \in shopping : match(r)}
       IN /\ shopping' = shopping \ matched
          /\ Reply(p, Returned("", Deleted(shopping, matched), 1))
    /\ UNCHANGED <<workload, DEFAULT_CUCKI_USER_ID, week_menu, weight_entries, nextId,
                   req, existing>>

\* ----------------------------------------------------------- week menu

\* .eq("id"), .eq("user_id") `if user_id:`, .eq("week_start") `if week_start:`
MenuMatch(r, item_id, user_id, week_start) ==
    /\ ItemMatch(r, item_id, user_id)
    /\ Truthy(week_start) => r.week_start = Val(week_start)

\* lines 201-209 and 303-311: the payload, as the store returns it
MenuRow(user_id, week_start, day_index, a) ==
    [id |-> nextId, user_id |-> user_id, week_start |-> week_start,
     day_index |-> day_index, breakfast |-> a.breakfast, lunch |-> a.lunch,
     dinner |-> a.dinner, is_done |-> a.is_done]

planner_week_menu_list(p) ==
    /\ Running(p, "planner_week_menu_list")
    /\ LET resolved_user_id == _resolve_user_id(req[p].user_id)
           resolved_week_start == _resolve_week_start(req[p].week_start)
       IN IF resolved_user_id.raised
          THEN Reply(p, Raised(resolved_user_id.error, 0))
          ELSE IF resolved_week_start.raised
          THEN Reply(p, Raised(resolved_week_start.error, 0))
          ELSE LET rows == {r \in week_menu :
                              /\ r.user_id = resolved_user_id.v
                              /\ r.week_start = resolved_week_start.v}
                   items == SortBy(rows, [r \in rows |-> r.day_index])
               IN Reply(p, [Returned("", items, 1)
                               EXCEPT !.user_id = resolved_user_id.v])
    /\ UNCHANGED <<workload, DEFAULT_CUCKI_USER_ID, tables, nextId, req, existing>>

planner_week_menu_add(p) ==
    /\ Running(p, "planner_week_menu_add")
    /\ LET resolved_user_id == _resolve_user_id(req[p].user_id)
           resolved_week_start == _resolve_week_start(req[p].week_start)
           resolved_day_index == _resolve_day_index(req[p].day_index)
       IN IF resolved_user_id.raised
          THEN /\ Reply(p, Raised(resolved_user_id.error, 0))
               /\ UNCHANGED <<week_menu, nextId>>
          ELSE IF resolved_week_start.raised
          THEN /\ Reply(p, Raised(resolved_week_start.error, 0))
               /\ UNCHANGED <<week_menu, nextId>>
          ELSE IF resolved_day_index.raised
          THEN /\ Reply(p, Raised(resolved_day_index.error, 0))
               /\ UNCHANGED <<week_menu, nextId>>
          ELSE LET row == MenuRow(resolved_user_id.v, resolved_week_start.v,
                                  resolved_day_index.v, req[p])
               IN /\ nextId <= MaxRows
                  /\ week_menu' = StoreInsert(week_menu, row)
                  /\ nextId' = nextId + 1
                  /\ Reply(p, Returned("", <<row>>, 1))
    /\ UNCHANGED <<workload, DEFAULT_CUCKI_USER_ID, shopping, weight_entries, req, existing>>

planner_week_menu_update(p) ==
    /\ Running(p, "planner_week_menu_update")
    /\ LET resolved_day_index ==
               IF req[p].day_index # None
               THEN _resolve_day_index(Val(req[p].day_index))
               ELSE Ok(None)
           changes == Change("breakfast", req[p].breakfast)
                        @@ Change("lunch", req[p].lunch)
                        @@ Change("dinner", req[p].dinner)
                        @@ Change("is_done", req[p].is_done)
                        @@ (IF req[p].day_index # None
                            THEN "day_index" :> resolved_day_index.v
                            ELSE <<>>)
           match(r) == MenuMatch(r, req[p].item_id, req[p].user_id,
                                 req[p].week_start)
           matched == {r \in week_menu : match(r)}
       IN IF resolved_day_index.raised
          THEN /\ Reply(p, Raised(resolved_day_index.error, 0))
               /\ UNCHANGED week_menu
          ELSE IF NoChanges(changes)
          THEN /\ Reply(p, Refused("No fields to update"))
               /\ UNCHANGED week_menu
          ELSE /\ week_menu' = StoreUpdate(week_menu, matched, changes)
               /\ Reply(p, Returned("", Updated(week_menu, matched, changes), 1))
    /\ UNCHANGED <<workload, DEFAULT_CUCKI_USER_ID, shopping, weight_entries, nextId,
                   req, existing>>

planner_week_menu_delete(p) ==
    /\ Running(p, "planner_week_menu_delete")
    /\ LET match(r) == MenuMatch(r, req[p].item_id, req[p].user_id,
                                 req[p].week_start)
           matched == {r \in week_menu : match(r)}
       IN /\ week_menu' = week_menu \ matched
          /\ Reply(p, Returned("", Deleted(week_menu, matched), 1))
    /\ UNCHANGED <<workload, DEFAULT_CUCKI_USER_ID, shopping, weight_entries, nextId,
                   req, existing>>

\* lines 273-282: the rows the upsert's lookup matches
MenuLookup(user_id, week_start, day_index) ==
    {r \in week_menu : /\ r.user_id = user_id
                       /\ r.week_start = week_start
                       /\ r.day_index = day_index}

\* A faulty variant that writes only the fields given a non-default value,
\* so that an omitted field keeps what the row had.
MenuUpsertKeepOmitted(q) ==
    [f \in {g \in {"breakfast", "lunch", "dinner"} : q[g] # <<>>}
              \cup (IF q.is_done THEN {"is_done"} ELSE {}) |-> q[f]]

\* lines 286-291: the update branch writes all four fields
MenuUpsertChanges(q) ==
    [breakfast |-> q.breakfast, lunch |-> q.lunch, dinner |-> q.dinner,
     is_done |-> q.is_done]

\* lines 269-282: validation, then the lookup (.limit(1): any one match)
planner_week_menu_upsert_day(p) ==
    /\ Running(p, "planner_week_menu_upsert_day")
    /\ LET resolved_user_id == _resolve_user_id(req[p].user_id)
           resolved_week_start == _resolve_week_start(req[p].week_start)
           resolved_day_index == _resolve_day_index(req[p].day_index)
       IN IF resolved_user_id.raised
          THEN /\ Reply(p, Raised(resolved_user_id.error, 0))
               /\ UNCHANGED existing
          ELSE IF resolved_week_start.raised
          THEN /\ Reply(p, Raised(resolved_week_start.error, 0))
               /\ UNCHANGED existing
          ELSE IF resolved_day_index.raised
          THEN /\ Reply(p, Raised(resolved_day_index.error, 0))
               /\ UNCHANGED existing
          ELSE LET found == MenuLookup(resolved_user_id.v,
                                        resolved_week_start.v,
                                        resolved_day_index.v)
               IN /\ IF found = {}
                     THEN existing' = [existing EXCEPT ![p] = NotFound]
                     ELSE \E r \in found :
                              existing' = [existing EXCEPT ![p] = r.id]
                  /\ pc' = [pc EXCEPT ![p] = "write"]
                  /\ UNCHANGED resp
    /\ UNCHANGED <<workload, DEFAULT_CUCKI_USER_ID, tables, nextId, req>>

\* lines 284-313: the update branch or the insert branch
planner_week_menu_upsert_day_write(p) ==
    /\ pc[p] = "write"
    /\ req[p].op = "planner_week_menu_upsert_day"
    /\ LET user_id == _resolve_user_id(req[p].user_id).v
           week_start == _resolve_week_start(req[p].week_start).v
           day_index == _resolve_day_index(req[p].day_index).v
           changes == MenuUpsertChanges(req[p])
           match(r) == /\ r.id = existing[p]
                       /\ r.user_id = user_id
                       /\ r.week_start = week_start
           row == MenuRow(user_id, week_start, day_index, req[p])
           matched == {r \in week_menu : match(r)}
       IN IF existing[p] # NotFound
          THEN /\ week_menu' = StoreUpdate(week_menu, matched, changes)
               /\ UNCHANGED nextId
               /\ Reply(p, Returned("updated",
                                    FirstRow(Updated(week_menu, matched, changes)),
                                    2))
          ELSE /\ nextId <= MaxRows
               /\ week_menu' = StoreInsert(week_menu, row)
               /\ nextId' = nextId + 1
               /\ Reply(p, Returned("inserted", <<row>>, 2))
    /\ UNCHANGED <<workload, DEFAULT_CUCKI_USER_ID, shopping, weight_entries, req, existing>>

\* ------------------------------------------------------- weight entries

\* lines 340-345 and 418-423: the payload, as the store returns it
WeightRow(user_id, date, weight_kg, notes) ==
    [id |-> nextId, user_id |-> user_id, date |-> date,
     weight_kg |-> weight_kg, notes |-> notes]

\* ISO dates order as their text does: the rank of a date among the known ones.
DateOrder == << <<"2024-01-01">>, <<"2024-01-02">> >>
DateRank(d) == CHOOSE i \in 1..Len(DateOrder) : DateOrder[i] = d

planner_weight_list(p) ==
    /\ Running(p, "planner_weight_list")
    /\ LET resolved_user_id == _resolve_user_id(req[p].user_id)
       IN IF resolved_user_id.raised
          THEN Reply(p, Raised(resolved_user_id.error, 0))
          ELSE LET rows == {r \in weight_entries : r.user_id = resolved_user_id.v}
                   items == SortBy(rows, [r \in rows |-> DateRank(r.date)])
               IN Reply(p, [Returned("", items, 1)
                               EXCEPT !.user_id = resolved_user_id.v])
    /\ UNCHANGED <<workload, DEFAULT_CUCKI_USER_ID, tables, nextId, req, existing>>

planner_weight_add(p) ==
    /\ Running(p, "planner_weight_add")
    /\ LET resolved_user_id == _resolve_user_id(req[p].user_id)
           resolved_date == _resolve_date(req[p].date)
           resolved_weight_kg == _resolve_weight_kg(req[p].weight_kg)
       IN IF resolved_user_id.raised
          THEN /\ Reply(p, Raised(resolved_user_id.error, 0))
               /\ UNCHANGED <<weight_entries, nextId>>
          ELSE IF resolved_date.raised
          THEN /\ Reply(p, Raised(resolved_date.error, 0))
               /\ UNCHANGED <<weight_entries, nextId>>
          ELSE IF resolved_weight_kg.raised
          THEN /\ Reply(p, Raised(resolved_weight_kg.error, 0))
               /\ UNCHANGED <<weight_entries, nextId>>
          ELSE LET row == WeightRow(resolved_user_id.v, resolved_date.v,
                                    resolved_weight_kg.v, req[p].notes)
               IN /\ nextId <= MaxRows
                  /\ weight_entries' = StoreInsert(weight_entries, row)
                  /\ nextId' = nextId + 1
                  /\ Reply(p, Returned("", <<row>>, 1))
    /\ UNCHANGED <<workload, DEFAULT_CUCKI_USER_ID, shopping, week_menu, req, existing>>

planner_weight_update(p) ==
    /\ Running(p, "planner_weight_update")
    /\ LET resolved_date ==
               IF req[p].date # None THEN _resolve_date(req[p].date)
               ELSE Ok(None)
           resolved_weight_kg ==
               IF req[p].weight_kg # None
               THEN _resolve_weight_kg(Val(req[p].weight_kg))
               ELSE Ok(None)
           changes == (IF req[p].date # None
                       THEN "date" :> resolved_date.v ELSE <<>>)
                        @@ (IF req[p].weight_kg # None
                            THEN "weight_kg" :> resolved_weight_kg.v ELSE <<>>)
                        @@ (IF req[p].notes # None
                            THEN "notes" :> req[p].notes ELSE <<>>)
           match(r) == ItemMatch(r, req[p].item_id, req[p].user_id)
           matched == {r \in weight_entries : match(r)}
       IN IF resolved_date.raised
          THEN /\ Reply(p, Raised(resolved_date.error, 0))
               /\ UNCHANGED weight_entries
          ELSE IF resolved_weight_kg.raised
          THEN /\ Reply(p, Raised(resolved_weight_kg.error, 0))
               /\ UNCHANGED weight_entries
          ELSE IF NoChanges(changes)
          THEN /\ Reply(p, Refused("No fields to update"))
               /\ UNCHANGED weight_entries
          ELSE /\ weight_entries' = StoreUpdate(weight_entries, matched, changes)
               /\ Reply(p, Returned("", Updated(weight_entries, matched, changes), 1))
    /\ UNCHANGED <<workload, DEFAULT_CUCKI_USER_ID, shopping, week_menu, nextId,
                   req, existing>>

planner_weight_delete(p) ==
    /\ Running(p, "planner_weight_delete")
    /\ LET match(r) == ItemMatch(r, req[p].item_id, req[p].user_id)
           matched == {r \in weight_entries : match(r)}
       IN /\ weight_entries' = weight_entries \ matched
          /\ Reply(p, Returned("", Deleted(weight_entries, matched), 1))
    /\ UNCHANGED <<workload, DEFAULT_CUCKI_USER_ID, shopping, week_menu, nextId,
                   req, existing>>

\* A faulty variant of the lookup without the owner filter of line 399.
WeightLookupAnyOwner(user_id, date) ==
    {r \in weight_entries : r.date = date}

\* lines 395-403: the rows the upsert's lookup matches
WeightLookup(user_id, date) ==
    {r \in weight_entries : r.user_id = user_id /\ r.date = date}

\* lines 391-403: validation, then the lookup (.limit(1): any one match)
planner_weight_upsert_by_date(p) ==
    /\ Running(p, "planner_weight_upsert_by_date")
    /\ LET resolved_user_id == _resolve_user_id(req[p].user_id)
           resolved_date == _resolve_date(req[p].date)
           resolved_weight_kg == _resolve_weight_kg(req[p].weight_kg)
       IN IF resolved_user_id.raised
          THEN /\ Reply(p, Raised(resolved_user_id.error, 0))
               /\ UNCHANGED existing
          ELSE IF resolved_date.raised
          THEN /\ Reply(p, Raised(resolved_date.error, 0))
               /\ UNCHANGED existing
          ELSE IF resolved_weight_kg.raised
          THEN /\ Reply(p, Raised(resolved_weight_kg.error, 0))
               /\ UNCHANGED existing
          ELSE LET found == WeightLookup(resolved_user_id.v, resolved_date.v)
               IN /\ IF found = {}
                     THEN existing' = [existing EXCEPT ![p] = NotFound]
                     ELSE \E r \in found :
                              existing' = [existing EXCEPT ![p] = r.id]
                  /\ pc' = [pc EXCEPT ![p] = "write"]
                  /\ UNCHANGED resp
    /\ UNCHANGED <<workload, DEFAULT_CUCKI_USER_ID, tables, nextId, req>>

\* lines 405-425: the update branch or the insert branch
planner_weight_upsert_by_date_write(p) ==
    /\ pc[p] = "write"
    /\ req[p].op = "planner_weight_upsert_by_date"
    /\ LET user_id == _resolve_user_id(req[p].user_id).v
           date == _resolve_date(req[p].date).v
           weight_kg == _resolve_weight_kg(req[p].weight_kg).v
           changes == [weight_kg |-> weight_kg, notes |-> req[p].notes]
           match(r) == r.id = existing[p] /\ r.user_id = user_id
           row == WeightRow(user_id, date, weight_kg, req[p].notes)
           matched == {r \in weight_entries : match(r)}
       IN IF existing[p] # NotFound
          THEN /\ weight_entries' = StoreUpdate(weight_entries, matched, changes)
               /\ UNCHANGED nextId
               /\ Reply(p, Returned("updated",
                                    FirstRow(Updated(weight_entries, matched, changes)),
                                    2))
          ELSE /\ nextId <= MaxRows
               /\ weight_entries' = StoreInsert(weight_entries, row)
               /\ nextId' = nextId + 1
               /\ Reply(p, Returned("inserted", <<row>>, 2))
    /\ UNCHANGED <<workload, DEFAULT_CUCKI_USER_ID, shopping, week_menu, req, existing>>

\* ------------------------------------------------------------- requests

Opt(S) == {None} \cup {Some(v) : v \in S}

Empty == <<>>
Blank == <<" ">>
OwnerA == <<"user-a">>
OwnerB == <<"user-b">>
Week1 == <<"2024-01-01">>
Week2 == <<"2024-01-08">>
Date1 == DateOrder[1]
Date2 == DateOrder[2]
Padded(s) == <<" ">> \o s \o <<" ">>
PyInt(n) == [int |-> TRUE, v |-> n]
NotInt == [int |-> FALSE, v |-> 3]
Num(x) == [num |-> TRUE, v |-> x]
NotNum == [num |-> FALSE, v |-> 0]
Text == {Empty, <<"x">>}

ItemIds == 1..(MaxRows + 1)

\* The calls of the shopping tools, drawn from the argument sets a.
ShoppingRequests(a) ==
    {[op |-> "planner_shopping_list", user_id |-> u, include_done |-> d] :
        u \in a.user_id, d \in BOOLEAN}
    \cup {[op |-> "planner_shopping_add", name |-> n, user_id |-> u,
           category |-> c, qty |-> q, done |-> d] :
        n \in a.name, u \in a.user_id, c \in a.category, q \in a.qty,
        d \in a.done}
    \cup {[op |-> "planner_shopping_update", item_id |-> i, name |-> n,
           category |-> c, qty |-> q, done |-> d, user_id |-> u] :
        i \in ItemIds, n \in a.new_name, c \in a.new_category,
        q \in a.new_qty, d \in a.new_done, u \in a.user_id}
    \cup {[op |-> "planner_shopping_set_done", item_id |-> i, done |-> d,
           user_id |-> u] :
        i \in ItemIds, d \in BOOLEAN, u \in a.user_id}
    \cup {[op |-> "planner_shopping_delete", item_id |-> i, user_id |-> u] :
        i \in ItemIds, u \in a.user_id}

MenuUpsertRequests(a) ==
    {[op |-> "planner_week_menu_upsert_day", day_index |-> di,
      breakfast |-> b, lunch |-> l, dinner |-> dn, is_done |-> d,
      user_id |-> u, week_start |-> ws] :
        di \in a.day_index, b \in a.breakfast, l \in a.lunch,
        dn \in a.dinner, d \in a.is_done, u \in a.user_id,
        ws \in a.week_start}

\* The calls of the week menu tools.
MenuRequests(a) ==
    {[op |-> "planner_week_menu_list", user_id |-> u, week_start |-> ws] :
        u \in a.user_id, ws \in a.week_start}
    \cup {[op |-> "planner_week_menu_add", day_index |-> di,
           breakfast |-> b, lunch |-> l, dinner |-> dn, is_done |-> d,
           user_id |-> u, week_start |-> ws] :
        di \in a.day_index, b \in a.breakfast, l \in a.lunch,
        dn \in a.dinner, d \in a.is_done, u \in a.user_id,
        ws \in a.week_start}
    \cup {[op |-> "planner_week_menu_update", item_id |-> i,
           breakfast |-> b, lunch |-> l, dinner |-> dn, is_done |-> d,
           day_index |-> di, user_id |-> u, week_start |-> ws] :
        i \in ItemIds, b \in a.new_breakfast, l \in a.new_lunch,
        dn \in a.new_dinner, d \in a.new_is_done, di \in a.new_day_index,
        u \in a.user_id, ws \in a.week_start_filter}
    \cup {[op |-> "planner_week_menu_delete", item_id |-> i, user_id |-> u,
           week_start |-> ws] :
        i \in ItemIds, u \in a.user_id, ws \in a.week_start_filter}
    \cup MenuUpsertRequests(a)

WeightUpsertRequests(a) ==
    {[op |-> "planner_weight_upsert_by_date", date |-> dt, weight_kg |-> kg,
      notes |-> n, user_id |-> u] :
        dt \in a.date, kg \in a.weight_kg, n \in a.notes, u \in a.user_id}

\* The calls of the weight tools.
WeightRequests(a) ==
    {[op |-> "planner_weight_list", user_id |-> u] : u \in a.user_id}
    \cup {[op |-> "planner_weight_add", date |-> dt, weight_kg |-> kg,
           notes |-> n, user_id |-> u] :
        dt \in a.date, kg \in a.weight_kg, n \in a.notes, u \in a.user_id}
    \cup {[op |-> "planner_weight_update", item_id |-> i, date |-> dt,
           weight_kg |-> kg, notes |-> n, user_id |-> u] :
        i \in ItemIds, dt \in a.new_date, kg \in a.new_weight_kg,
        n \in a.new_notes, u \in a.user_id}
    \cup {[op |-> "planner_weight_delete", item_id |-> i, user_id |-> u] :
        i \in ItemIds, u \in a.user_id}
    \cup WeightUpsertRequests(a)

\* Every form of owner argument: omitted, empty, blank, and two owners.
UserIdArgs == {None, Some(Empty), Some(Blank), Some(OwnerA), Some(OwnerB)}

\* Callers probing scope and validation: every form of owner, week, day,
\* date and weight, with the field values fixed.
ScopeArgs ==
    [user_id |-> UserIdArgs,
     name |-> {<<"milk">>}, category |-> {<<"Otros">>}, qty |-> {<<"1">>},
     done |-> {FALSE},
     new_name |-> {None, Some(<<"bread">>)}, new_category |-> {None},
     new_qty |-> {None}, new_done |-> {None},
     week_start |-> {None, Some(Empty), Some(Blank), Some(Week1), Some(Week2)},
     week_start_filter |->
         {None, Some(Empty), Some(Blank), Some(Week1), Some(Week2)},
     day_index |-> {PyInt(0), PyInt(1), PyInt(7), PyInt(8), NotInt},
     breakfast |-> {Empty}, lunch |-> {Empty}, dinner |-> {Empty},
     is_done |-> {FALSE},
     new_breakfast |-> {None}, new_lunch |-> {None}, new_dinner |-> {None},
     new_is_done |-> {None},
     new_day_index |-> {None, Some(PyInt(7)), Some(PyInt(8))},
     date |-> {Some(Empty), Some(Blank), Some(Date1), Some(Padded(Date2))},
     weight_kg |-> {Num(70), Num(71), NotNum}, notes |-> {None},
     new_date |-> {None, Some(Empty), Some(Date2)},
     new_weight_kg |-> {None, Some(NotNum)},
     new_notes |-> {None}]

\* Callers probing the fields: one owner (the default one), one week and
\* day; fields provided, provided empty or false, and omitted.
FieldArgs ==
    [user_id |-> {None},
     name |-> Text, category |-> {<<"Otros">>}, qty |-> {<<"1">>},
     done |-> BOOLEAN,
     new_name |-> Opt(Text), new_category |-> {None, Some(Empty)},
     new_qty |-> {None, Some(<<"1">>)}, new_done |-> Opt(BOOLEAN),
     week_start |-> {Some(Week1)}, week_start_filter |-> {None},
     day_index |-> {PyInt(3)},
     breakfast |-> Text, lunch |-> Text, dinner |-> {Empty},
     is_done |-> BOOLEAN,
     new_breakfast |-> Opt(Text), new_lunch |-> Opt(Text),
     new_dinner |-> {None, Some(Empty)}, new_is_done |-> Opt(BOOLEAN),
     new_day_index |-> {None},
     date |-> {Some(Date1)},
     weight_kg |-> {Num(70), Num(71)}, notes |-> Opt(Text),
     new_date |-> {None}, new_weight_kg |-> Opt({Num(70), Num(71)}),
     new_notes |-> Opt(Text)]

\* Sequential callers of the weight upsert alone: two owners, two dates.
UpsertArgs ==
    [user_id |-> {None, Some(OwnerB)},
     date |-> {Some(Date1), Some(Padded(Date2))},
     weight_kg |-> {Num(70), Num(71)}, notes |-> {None}]

\* Concurrent callers of the two upserts: one owner, two days, one date.
RaceArgs ==
    [user_id |-> {None},
     week_start |-> {Some(Week1)}, day_index |-> {PyInt(1), PyInt(7)},
     breakfast |-> Text, lunch |-> {Empty}, dinner |-> {Empty},
     is_done |-> {FALSE},
     date |-> {Some(Date1)},
     weight_kg |-> {Num(70), Num(71)}, notes |-> {None}]

\* The workloads: what the callers of one behaviour ask for.
Workloads ==
    {"shopping_scope", "shopping_fields", "menu_scope", "menu_fields",
     "weight_scope", "weight_fields", "weight_upsert", "upsert_race"}

Requests(w) ==
    CASE w = "shopping_scope" -> ShoppingRequests(ScopeArgs)
      [] w = "shopping_fields" -> ShoppingRequests(FieldArgs)
      [] w = "menu_scope" -> MenuRequests(ScopeArgs)
      [] w = "menu_fields" -> MenuRequests(FieldArgs)
      [] w = "weight_scope" -> WeightRequests(ScopeArgs)
      [] w = "weight_fields" -> WeightRequests(FieldArgs)
      [] w = "weight_upsert" -> WeightUpsertRequests(UpsertArgs)
      [] w = "upsert_race" ->
            MenuUpsertRequests(RaceArgs) \cup WeightUpsertRequests(RaceArgs)

\* Calls are sequential (one caller) except in the concurrent workload.
Callers(w) == IF w = "upsert_race" THEN Procs ELSE {1}

\* The default owner is configured, or left empty, where scope is probed.
DefaultUserIds(w) ==
    IF w \in {"shopping_scope", "menu_scope", "weight_scope"}
    THEN {Empty, OwnerA}
    ELSE {OwnerA}

\* ------------------------------------------------------ specification

\* A caller sends a request to the server.
Call(p) ==
    /\ pc[p] = "idle"
    /\ p \in Callers(workload)
    /\ \E r \in Requests(workload) : req' = [req EXCEPT ![p] = r]
    /\ pc' = [pc EXCEPT ![p] = "called"]
    /\ UNCHANGED <<workload, DEFAULT_CUCKI_USER_ID, tables, nextId, existing,
                   resp>>

\* The caller has read the response (or the fault): the call is over.
Return(p) ==
    /\ pc[p] = "returned"
    /\ pc' = [pc EXCEPT ![p] = "idle"]
    /\ req' = [req EXCEPT ![p] = NoReq]
    /\ resp' = [resp EXCEPT ![p] = NoResp]
    /\ existing' = [existing EXCEPT ![p] = NotFound]
    /\ UNCHANGED <<workload, DEFAULT_CUCKI_USER_ID, tables, nextId>>

Init ==
    /\ workload \in Workloads
    /\ DEFAULT_CUCKI_USER_ID \in DefaultUserIds(workload)
    /\ shopping = {}
    /\ week_menu = {}
    /\ weight_entries = {}
    /\ nextId = 1
    /\ pc = [p \in Procs |-> "idle"]
    /\ req = [p \in Procs |-> NoReq]
    /\ existing = [p \in Procs |-> NotFound]
    /\ resp = [p \in Procs |-> NoResp]

Next ==
    \E p \in Procs :
        \/ Call(p)
        \/ Return(p)
        \/ planner_shopping_list(p)
        \/ planner_shopping_add(p)
        \/ planner_shopping_update(p)
        \/ planner_shopping_set_done(p)
        \/ planner_shopping_delete(p)
        \/ planner_week_menu_list(p)
        \/ planner_week_menu_add(p)
        \/ planner_week_menu_update(p)
        \/ planner_week_menu_delete(p)
        \/ planner_week_menu_upsert_day(p)
        \/ planner_week_menu_upsert_day_write(p)
        \/ planner_weight_list(p)
        \/ planner_weight_add(p)
        \/ planner_weight_update(p)
        \/ planner_weight_delete(p)
        \/ planner_weight_upsert_by_date(p)
        \/ planner_weight_upsert_by_date_write(p)

Spec == Init /\ [][Next]_vars

\* ---------------------------------------------------------- properties

Range(seq) == {seq[i] : i \in 1..Len(seq)}

ListOps ==
    {"planner_shopping_list", "planner_week_menu_list", "planner_weight_list"}
UpdateOps ==
    {"planner_shopping_update", "planner_week_menu_update",
     "planner_weight_update"}
WriteOps ==
    UpdateOps \cup {"planner_shopping_set_done", "planner_shopping_delete",
                    "planner_week_menu_delete", "planner_weight_delete"}
UpsertOps == {"planner_week_menu_upsert_day", "planner_weight_upsert_by_date"}
MenuOps ==
    {"planner_week_menu_list", "planner_week_menu_add",
     "planner_week_menu_update", "planner_week_menu_delete",
     "planner_week_menu_upsert_day"}
WeightOps ==
    {"planner_weight_list", "planner_weight_add", "planner_weight_update",
     "planner_weight_delete", "planner_weight_upsert_by_date"}

\* The table an operation works on.
TableOf(op) ==
    IF op \in MenuOps THEN week_menu
    ELSE IF op \in WeightOps THEN weight_entries
    ELSE shopping

Rows == shopping \cup week_menu \cup weight_entries

\* The step in which the handler of p's call finishes (returns or raises).
Handled(p) == pc[p] \in {"called", "write"} /\ pc'[p] = "returned"

\* The rows of a table that belong to the owner a call resolves to: of the
\* supplied owner if non-empty, otherwise of the default owner; none when
\* neither is given.
OwnedBy(table, user_id) ==
    {r \in table : /\ ~_resolve_user_id(user_id).raised
                   /\ r.user_id = _resolve_user_id(user_id).v}

\* C1: every row that an update, set-done or delete call modifies or removes
\* belongs to the call's effective owner (the supplied owner if non-empty,
\* otherwise the default owner), also when the owner is omitted or empty.
C1_WritesOnlyOwnRows ==
    [][\A p \in Procs :
          (Handled(p) /\ req[p].op \in WriteOps) =>
              (Rows \ Rows') \subseteq OwnedBy(Rows, req[p].user_id)]_vars

\* The rows of the resolved owner (and, for the week menu, of the resolved
\* week) in the table a list call reads.
ScopeRows(q) ==
    IF q.op = "planner_week_menu_list"
    THEN {r \in OwnedBy(week_menu, q.user_id) :
             r.week_start = _resolve_week_start(q.week_start).v}
    ELSE OwnedBy(TableOf(q.op), q.user_id)

ValidScope(q) ==
    /\ ~_resolve_user_id(q.user_id).raised
    /\ q.op = "planner_week_menu_list" =>
           ~_resolve_week_start(q.week_start).raised

\* C2 as stated: a list call with a valid owner (and week) returns ok=true
\* with exactly the rows of that owner (and week): none of another owner,
\* and every one of its own.
C2_ListReturnsExactlyScope ==
    \A p \in Procs :
        (pc[p] = "returned" /\ req[p].op \in ListOps /\ ValidScope(req[p])) =>
            /\ resp[p].status = "return" /\ resp[p].ok
            /\ Range(resp[p].rows) = ScopeRows(req[p])

\* C2 as amended: the same, except that the shopping list called with
\* include_done=false leaves out the rows marked done; no row is listed twice.
C2_ListReturnsScopeUpToDoneFilter ==
    \A p \in Procs :
        (pc[p] = "returned" /\ req[p].op \in ListOps /\ ValidScope(req[p])) =>
            /\ resp[p].status = "return" /\ resp[p].ok
            /\ Len(resp[p].rows) = Cardinality(Range(resp[p].rows))
            /\ Range(resp[p].rows) =
                 {r \in ScopeRows(req[p]) :
                     (/\ req[p].op = "planner_shopping_list"
                      /\ ~req[p].include_done) => ~r.done}

\* A list call has returned a row of its owner while the same table holds a
\* row of another owner.
C2_Witness ==
    \E p \in Procs :
        /\ pc[p] = "returned" /\ req[p].op \in ListOps
        /\ resp[p].status = "return"
        /\ resp[p].rows # <<>>
        /\ \E r \in TableOf(req[p].op) : r.user_id # resp[p].user_id

\* The weight rows of one (owner, date) pair.
WeightKey(table, user_id, date) ==
    {r \in table : r.user_id = user_id /\ r.date = date}

\* C3: in a sequential history of weight_upsert_by_date calls alone, from an
\* empty table: a row, once there, stays; the call for an (owner, date) that
\* has no row returns mode "inserted" (the first call) and the call for one
\* that has a row returns "updated" (every later call); after the call the
\* pair has exactly one row, and it holds the weight_kg of that call.
C3_UpsertByDateInsertsThenUpdates ==
    [][workload = "weight_upsert" =>
          /\ \A r \in weight_entries :
                 WeightKey(weight_entries', r.user_id, r.date) # {}
          /\ \A p \in Procs :
                 (Handled(p) /\ resp'[p].status = "return") =>
                     LET user_id == _resolve_user_id(req[p].user_id).v
                         date == _resolve_date(req[p].date).v
                         before == WeightKey(weight_entries, user_id, date)
                         after == WeightKey(weight_entries', user_id, date)
                     IN /\ resp'[p].ok
                        /\ resp'[p].mode =
                             IF before = {} THEN "inserted" ELSE "updated"
                        /\ Cardinality(after) = 1
                        /\ \A r \in after : r.weight_kg = req[p].weight_kg.v
                        /\ Range(resp'[p].rows) = after]_vars

\* A second weight_upsert_by_date call for a pair has returned "updated" and
\* the one row of the pair holds its weight, 71, while another owner has a
\* row for a date as well.
C3_Witness ==
    /\ workload = "weight_upsert"
    /\ \E p \in Procs :
          /\ pc[p] = "returned" /\ resp[p].status = "return"
          /\ resp[p].mode = "updated"
          /\ req[p].weight_kg = Num(71)
          /\ \A r \in Range(resp[p].rows) : r.weight_kg = 71
          /\ resp[p].rows # <<>>
          /\ Cardinality({r.user_id : r \in weight_entries}) = 2

\* The natural key of an upsert call: (owner, week_start, day_index) or
\* (owner, date), as the call resolves them.
NaturalKey(q) ==
    IF q.op = "planner_week_menu_upsert_day"
    THEN <<_resolve_user_id(q.user_id).v, _resolve_week_start(q.week_start).v,
           _resolve_day_index(q.day_index).v>>
    ELSE <<_resolve_user_id(q.user_id).v, _resolve_date(q.date).v>>

\* The natural key of a stored row.
RowKey(r) ==
    IF "date" \in DOMAIN r THEN <<r.user_id, r.date>>
    ELSE <<r.user_id, r.week_start, r.day_index>>

\* Two upsert calls for the same natural key, both having found no row in
\* their lookups, both having written.
BothFoundNothing(p, q) ==
    /\ p # q
    /\ pc[p] = "returned" /\ pc[q] = "returned"
    /\ resp[p].status = "return" /\ resp[q].status = "return"
    /\ req[p].op \in UpsertOps /\ req[q].op = req[p].op
    /\ NaturalKey(req[p]) = NaturalKey(req[q])
    /\ existing[p] = NotFound /\ existing[q] = NotFound

\* C4: the lookup and the write of an upsert are two store steps, so two
\* concurrent upserts of one natural key can both find no row; whenever they
\* do, both return mode "inserted" and the store holds two rows for that key.
C4_ConcurrentUpsertsDuplicate ==
    \A p, q \in Procs :
        BothFoundNothing(p, q) =>
            /\ resp[p].mode = "inserted" /\ resp[q].mode = "inserted"
            /\ resp[p].rows # resp[q].rows
            /\ Cardinality({r \in TableOf(req[p].op) :
                               RowKey(r) = NaturalKey(req[p])}) >= 2

\* The interleaving has happened: the table started empty, two concurrent
\* upserts of one key have both returned "inserted", and the table holds
\* two rows, both of that key.
C4_Witness ==
    \E p, q \in Procs :
        /\ BothFoundNothing(p, q)
        /\ resp[p].mode = "inserted" /\ resp[q].mode = "inserted"
        /\ Cardinality(TableOf(req[p].op)) = 2
        /\ \A r \in TableOf(req[p].op) : RowKey(r) = NaturalKey(req[p])

\* Not supplied: None, empty or whitespace-only.
NotSupplied(user_id) == user_id = None \/ strip(Val(user_id)) = <<>>

\* C5: a call with no supplied owner acts only within the default owner's
\* scope (the rows it changes, adds or returns are the default owner's); with
\* no default configured either, it fails and leaves the store unchanged.
C5_NoOwnerMeansDefaultOwner ==
    [][\A p \in Procs :
          (Handled(p) /\ NotSupplied(req[p].user_id)) =>
              IF strip(DEFAULT_CUCKI_USER_ID) = <<>>
              THEN resp'[p].status = "raise" /\ tables' = tables
              ELSE \A r \in (Rows \ Rows') \cup (Rows' \ Rows)
                              \cup Range(resp'[p].rows) :
                       r.user_id = strip(DEFAULT_CUCKI_USER_ID)]_vars

\* The mutable fields an update call provides (those not None).
ProvidedFields(q) ==
    {f \in DOMAIN q \ {"op", "item_id", "user_id", "week_start"} : q[f] # None}

\* C6: an update call (shopping, week menu, weight) that provides no mutable
\* field returns {ok: false, error: "No fields to update"}, issues no store
\* call and leaves the store unchanged, whatever its item_id and owner.
C6_NoFieldsToUpdate ==
    [][\A p \in Procs :
          (/\ Handled(p) /\ req[p].op \in UpdateOps
           /\ ProvidedFields(req[p]) = {}) =>
              /\ resp'[p].status = "return" /\ ~resp'[p].ok
              /\ resp'[p].error = "No fields to update"
              /\ resp'[p].calls = 0
              /\ tables' = tables]_vars

\* An update call without fields has been refused although its item_id and
\* owner name a row of the table.
C6_Witness ==
    \E p \in Procs :
        /\ pc[p] = "returned" /\ req[p].op \in UpdateOps
        /\ ProvidedFields(req[p]) = {}
        /\ resp[p].error = "No fields to update"
        /\ \E r \in TableOf(req[p].op) :
               r.id = req[p].item_id /\ req[p].user_id = Some(r.user_id)

\* The day_index argument of a call, as an optional: week_menu_update alone
\* takes it as one.
DayIndexArg(q) ==
    IF q.op = "planner_week_menu_update" THEN q.day_index ELSE Some(q.day_index)

\* A supplied day_index that is not an integer or lies outside 1..7.
InvalidDayIndex(q) ==
    /\ "day_index" \in DOMAIN q
    /\ DayIndexArg(q) # None
    /\ \/ ~Val(DayIndexArg(q)).int
       \/ Val(DayIndexArg(q)).v \notin MinDay..MaxDay

\* A supplied text argument (week_start, date) that is empty or
\* whitespace-only.
BlankArg(q, f) == f \in DOMAIN q /\ q[f] # None /\ strip(Val(q[f])) = <<>>

\* The call raises before any store call, and the store is unchanged.
RaisesBeforeStore(p) ==
    /\ resp'[p].status = "raise"
    /\ resp'[p].calls = 0
    /\ tables' = tables

\* C7 as stated: a call that receives an invalid key parameter (a day_index
\* outside 1..7 or not an integer, an empty or whitespace-only week_start or
\* date) raises before any store call and leaves the store unchanged; every
\* week-menu row has day_index in 1..7.
C7_InvalidKeyRaises ==
    [][/\ \A p \in Procs :
             (/\ Handled(p)
              /\ \/ InvalidDayIndex(req[p])
                 \/ BlankArg(req[p], "week_start")
                 \/ BlankArg(req[p], "date")) => RaisesBeforeStore(p)
       /\ \A r \in week_menu' : r.day_index \in MinDay..MaxDay]_vars

\* The operations that validate week_start: week_menu_update and
\* week_menu_delete take it as an optional filter and do not.
WeekStartOps ==
    {"planner_week_menu_list", "planner_week_menu_add",
     "planner_week_menu_upsert_day"}

\* C7 as amended: the same for day_index and date; for week_start, only in
\* week_menu_list, week_menu_add and week_menu_upsert_day.  A
\* week_menu_update or week_menu_delete call with an empty or
\* whitespace-only week_start does not raise for it.
C7_InvalidKeyRaisesWhereValidated ==
    [][/\ \A p \in Procs :
             (/\ Handled(p)
              /\ \/ InvalidDayIndex(req[p])
                 \/ /\ BlankArg(req[p], "week_start")
                    /\ req[p].op \in WeekStartOps
                 \/ BlankArg(req[p], "date")) => RaisesBeforeStore(p)
       /\ \A p \in Procs :
             (/\ Handled(p)
              /\ req[p].op \in MenuOps \ WeekStartOps
              /\ BlankArg(req[p], "week_start")
              /\ ~InvalidDayIndex(req[p])) => resp'[p].status = "return"
       /\ \A r \in week_menu' : r.day_index \in MinDay..MaxDay]_vars

\* A week_menu_upsert_day call of a valid owner and week with day_index 8
\* has raised, the week menu holding a row.
C7_Witness ==
    \E p \in Procs :
        /\ pc[p] = "returned"
        /\ req[p].op = "planner_week_menu_upsert_day"
        /\ req[p].day_index = PyInt(8)
        /\ ~_resolve_user_id(req[p].user_id).raised
        /\ ~_resolve_week_start(req[p].week_start).raised
        /\ resp[p].status = "raise" /\ resp[p].calls = 0
        /\ week_menu # {}

\* C8: when week_menu_upsert_day has found a row for (owner, week_start,
\* day_index) and the row is there at its write, the call returns mode
\* "updated"; no row is created; the row keeps its id, owner, week_start and
\* day_index; its breakfast, lunch, dinner and is_done become the call's
\* arguments, a field the call omits being reset to its default ("" or
\* false); every other row is unchanged.
C8_UpsertDayReplacesWholesale ==
    [][\A p \in Procs :
          (/\ Handled(p) /\ pc[p] = "write"
           /\ req[p].op = "planner_week_menu_upsert_day"
           /\ existing[p] # NotFound
           /\ \E r \in week_menu : r.id = existing[p]) =>
              /\ resp'[p].status = "return" /\ resp'[p].ok
              /\ resp'[p].mode = "updated"
              /\ nextId' = nextId
              /\ Cardinality(week_menu') = Cardinality(week_menu)
              /\ \A r \in week_menu :
                    IF r.id # existing[p] THEN r \in week_menu'
                    ELSE LET item == [r EXCEPT
                                         !.breakfast = req[p].breakfast,
                                         !.lunch = req[p].lunch,
                                         !.dinner = req[p].dinner,
                                         !.is_done = req[p].is_done]
                         IN /\ RowKey(r) = NaturalKey(req[p])
                            /\ item \in week_menu'
                            /\ resp'[p].rows = <<item>>]_vars

\* A week_menu_upsert_day call that gave lunch and omitted breakfast has
\* returned "updated": the row has that lunch and the default breakfast.
C8_Witness ==
    \E p \in Procs :
        /\ pc[p] = "returned"
        /\ req[p].op = "planner_week_menu_upsert_day"
        /\ resp[p].status = "return" /\ resp[p].mode = "updated"
        /\ req[p].breakfast = Empty /\ req[p].lunch = <<"x">>
        /\ resp[p].rows # <<>>
        /\ resp[p].rows[1].breakfast = Empty
        /\ resp[p].rows[1].lunch = <<"x">>
        /\ resp[p].rows[1] \in week_menu

\* An update call that gets as far as the store: a field is provided and the
\* provided day_index, date and weight_kg are valid.
ValidUpdate(q) ==
    /\ ProvidedFields(q) # {}
    /\ ~InvalidDayIndex(q)
    /\ ~BlankArg(q, "date")
    /\ "weight_kg" \in ProvidedFields(q) => Val(q.weight_kg).num

\* The rows of the call's table within the caller's scope: the rows of the
\* call's owner, of the given week where one is supplied.
CallerScope(q) ==
    {r \in OwnedBy(TableOf(q.op), q.user_id) :
        (q.op \in MenuOps /\ Truthy(q.week_start)) =>
            r.week_start = Val(q.week_start)}

\* C9: an update (one that provides a valid field), set-done or delete call
\* whose item id matches no row within the caller's scope returns ok=true
\* with an empty list, raises nothing and leaves every row unchanged.
C9_NoMatchChangesNothing ==
    [][\A p \in Procs :
          (/\ Handled(p) /\ req[p].op \in WriteOps
           /\ req[p].op \in UpdateOps => ValidUpdate(req[p])
           /\ \A r \in CallerScope(req[p]) : r.id # req[p].item_id) =>
              /\ resp'[p].status = "return" /\ resp'[p].ok
              /\ resp'[p].rows = <<>>
              /\ tables' = tables]_vars

\* The value an update call writes to field f: key-shaped fields as
\* resolved, the others as given.
Written(q, f) ==
    IF f = "day_index" THEN Val(q.day_index).v
    ELSE IF f = "weight_kg" THEN Val(q.weight_kg).v
    ELSE IF f = "date" THEN strip(Val(q.date))
    ELSE IF f = "notes" THEN q.notes
    ELSE Val(q[f])

\* C10: an update call that reaches the store writes exactly the provided
\* fields (false and "" included) to the rows matching its item id within
\* the caller's scope, and leaves every other field and every other row
\* unchanged; no row changes owner, none is added or removed.
C10_UpdateWritesProvidedFieldsInScope ==
    [][\A p \in Procs :
          (/\ Handled(p) /\ req[p].op \in UpdateOps
           /\ resp'[p].status = "return" /\ resp'[p].ok) =>
              LET q == req[p]
                  target == {r \in CallerScope(q) : r.id = q.item_id}
                  after(r) ==
                      [f \in DOMAIN r |->
                          IF r \in target /\ f \in ProvidedFields(q)
                          THEN Written(q, f) ELSE r[f]]
              IN /\ Rows' = {after(r) : r \in Rows}
                 /\ Range(resp'[p].rows) = {after(r) : r \in target}]_vars

====
